---- MODULE Spec2Model ----
(***************************************************************************)
(* Choropleth datasource of the map visual: region aggregation             *)
(* (datasources/choropleth.ts update), limits (mapboxUtils.ts getLimits)   *)
(* and the bounding-box polling protocol that update() starts when         *)
(* auto-zoom is on.                                                        *)
(*                                                                         *)
(* Values.  A JavaScript value that is null or a number is held as a       *)
(* sequence: <<>> is null, <<n>> is a number.  Numbers are fixed point:    *)
(* the integer n stands for n / Unit, where Unit is the least common       *)
(* multiple of 1..MaxRows, so that the division of Average (a sum of at    *)
(* most MaxRows inputs by their count) is exact.  The literal 1 of the     *)
(* source is therefore Unit here, and 0 is 0.                              *)
(***************************************************************************)
EXTENDS Integers, Sequences, FiniteSets, TLC

\* Longest row sequence handed to update(), and longest record list handed
\* to getLimits directly.
MaxRows == 3
MaxRecs == 3
\* Most protocol instances (update() calls that start polling) in one run,
\* and the last instant of the clock, in steps of TimeStep milliseconds.
MaxInst == 2
MaxTime == 4
\* Longest array handed to getClassCount on its own.
MaxCount == 7
\* Longest array and greatest class count handed to getBreaks on its own.
MaxBreakVals == 3
MaxClasses == 3
\* Longest values list handed to generateColorStops: of the lists in
\* rotated ascending or descending order, and of the lists in every order.
MaxStopVals == 7
MaxDivVals == 3
\* Most region records handed to applySettings.
MaxBindRows == 2
\* Most delayedUpdate listeners waiting for 'style.load'.
MaxDelayed == 2
\* Longest row sequence of each of two update() calls in a row.
MaxFreshRows == 2
\* Legend elements created over the life of one LegendControl.
MaxCreated == 3

VARIABLES
    features,        \* the rows (f.properties) update() is called with
    aggregation,     \* settings.choropleth.aggregation
    roleMap,         \* roleMap.columns
    updated,         \* update() has run
    choroplethData,  \* this.choroplethData
    colorLimits,     \* this.colorLimits
    sizeLimits,      \* this.sizeLimits
    held,            \* what a consumer took from the datasource before the
                     \* last update(): <<>>, or the objects then and now
    limIn,           \* getLimits called on its own: the records
    limOut,          \* getLimits called on its own: <<>>, then <<the Limits>>
    bounds,          \* this.bounds of the datasource
    sourceBounds,    \* map.getSource(this.ID).bounds
    insts,           \* the closures of update() that are still registered
    calls,           \* the runs of sourceLoaded in the last step, in order
    allNull,         \* every query so far returned null
    now,             \* Date.now(), in steps of TimeStep since construction
    autozoomSetting, \* settings.api.autozoom of the last update()
    event,           \* what the last step handed to the listeners: the
                     \* map's event, the timer's tick, or nothing
    fnArgs,          \* a function called on its own: its arguments
    fnResult,        \* a function called on its own: <<>>, then <<its result>>
    visual,          \* the MapboxMap visual and the outcome of the last call into it
    legend           \* a LegendControl, its container's children and the
                     \* outcome of the last call into it

dataVars ==
    <<features, aggregation, roleMap, updated, choroplethData, colorLimits, sizeLimits, held>>
limVars == <<limIn, limOut>>
bboxVars == <<bounds, sourceBounds, insts, calls, allNull, now, autozoomSetting, event>>
fnVars == <<fnArgs, fnResult>>
visVars == <<visual>>
legVars == <<legend>>
vars == <<dataVars, limVars, bboxVars, fnVars, visVars, legVars>>

----------------------------------------------------------------------------
\* JavaScript values

Null == <<>>
Num(n) == <<n>>

RECURSIVE Gcd(_, _)
Gcd(a, b) == IF b = 0 THEN a ELSE Gcd(b, a % b)

RECURSIVE LcmUpTo(_)
LcmUpTo(n) == IF n <= 1 THEN 1 ELSE LET l == LcmUpTo(n - 1) IN (l * n) \div Gcd(l, n)

Unit == LcmUpTo(MaxRows)

\* ToNumber: null converts to 0.
ToNumber(v) == IF v = Null THEN 0 ELSE v[1]

\* Truthiness: null and 0 are falsy, every other number is truthy.
Truthy(v) == v # Null /\ v[1] # 0

\* a + b, a < b, a > b on null-or-number operands.
Add(a, b) == Num(ToNumber(a) + ToNumber(b))
Lt(a, b) == ToNumber(a) < ToNumber(b)
Gt(a, b) == ToNumber(a) > ToNumber(b)

----------------------------------------------------------------------------
\* mapboxUtils.ts

\* positionInArray: -1 when no element is loosely equal to the given one,
\* undefined (here Null) when one is; the loop bound i <= length reads one
\* slot past the end, which is undefined and equals no number.
positionInArray(array, element) ==
    IF \E i \in 1..Len(array) : array[i] = element THEN Null ELSE Num(-1)

\* pushIfNotExist without its test: the element is pushed every time.
pushAlways(array, element) == Append(array, element)

pushIfNotExist(array, element) ==
    IF positionInArray(array, element) = Num(-1) THEN Append(array, element) ELSE array

\* One step of the forEach of getLimits over a record f (lines 158-165).
LimitsStep(acc, value) ==
    IF value # Null
    THEN [min |-> IF ~Truthy(acc.min) \/ Lt(value, acc.min) THEN value ELSE acc.min,
          max |-> IF ~Truthy(acc.max) \/ Gt(value, acc.max) THEN value ELSE acc.max,
          values |-> pushIfNotExist(acc.values, value)]
    ELSE acc

\* The guard of line 171: min is truthy, is not a string, and min == max.
MinEqualsMax(min, max) == Truthy(min) /\ min = max

\* data.forEach(...) of lines 158-165, over the values f[myproperty].
RECURSIVE LimitsForEach(_, _)
LimitsForEach(props, acc) ==
    IF props = <<>> THEN acc
    ELSE LimitsForEach(Tail(props), LimitsStep(acc, Head(props)))

getLimits(data, myproperty) ==
    LET start == [min |-> Null, max |-> Null, values |-> <<>>]
        props == [i \in 1..Len(data) |-> data[i][myproperty]]
        acc == IF Len(data) > 0 /\ myproperty # ""
               THEN LimitsForEach(props, start)
               ELSE start
    IN [min |-> IF MinEqualsMax(acc.min, acc.max)
                THEN Num(acc.min[1] - Unit)
                ELSE acc.min,
        max |-> acc.max,
        values |-> acc.values]

----------------------------------------------------------------------------
\* mapboxUtils.ts: classification

Min(a, b) == IF a < b THEN a ELSE b

MAX_BOUND_COUNT == 6

\* getClassCount without the clamp at MAX_BOUND_COUNT.
getClassCountUnclamped(values) == Len(values) - 1

getClassCount(values) == Min(Len(values), MAX_BOUND_COUNT) - 1

\* The numbers handed to the classification are fixed point as well: the
\* integer n stands for n / BreakUnit, and BreakUnit is a multiple of every
\* class count up to 5, so that the breaks of the equidistant and quantile
\* modes are exact.
BreakUnit == LcmUpTo(MAX_BOUND_COUNT - 1)

\* Array.prototype.sort((a, b) => a - b): insertion into a sorted array.
RECURSIVE Insert(_, _)
Insert(sorted, x) ==
    IF sorted = <<>> THEN <<x>>
    ELSE IF x < Head(sorted) THEN <<x>> \o sorted
    ELSE <<Head(sorted)>> \o Insert(Tail(sorted), x)

RECURSIVE SortAscending(_)
SortAscending(array) ==
    IF array = <<>> THEN <<>>
    ELSE Insert(SortAscending(SubSeq(array, 1, Len(array) - 1)), array[Len(array)])

RECURSIVE Pow(_, _)
Pow(b, e) == IF e = 0 THEN 1 ELSE b * Pow(b, e - 1)

\* Equal interval: min + (i / num) * (max - min).
EqualBreak(min, max, i, num) == min + (i * (max - min)) \div num

\* Quantile: the value at position p = (n - 1) * i / num of the sorted
\* values, interpolated between its two neighbours when p is no integer.
QuantileBreak(values, i, num) ==
    LET top == (Len(values) - 1) * i
        pb == top \div num
        pr == top % num
    IN IF pr = 0 THEN values[pb + 1]
       ELSE (values[pb + 1] * (num - pr) + values[pb + 2] * pr) \div num

\* Logarithmic: 10 ^ (log10 min + (i / num) * (log10 max - log10 min)),
\* that is the num-th root of min^(num - i) * max^i; the fixed-point result
\* is cut to the unit below.
LogBreak(min, max, i, num) ==
    LET x == Pow(min, num - i) * Pow(max, i)
    IN CHOOSE r \in min..max : Pow(r, num) <= x /\ x < Pow(r + 1, num)

\* chroma.limits(data, mode, num) on a non-empty array of numbers.  The
\* result is the array of limits, or the error it throws.  The k-means mode
\* is covered for num = 1 only, which returns before the mode is looked at.
chromaLimits(data, mode, num) ==
    LET values == SortAscending(data)
        min == values[1]
        max == values[Len(values)]
        inner == 1..(num - 1)
    IN IF num = 1 THEN [raised |-> FALSE, limits |-> <<min, max>>]
       ELSE CASE mode = "e" ->
                   [raised |-> FALSE,
                    limits |-> <<min>> \o [i \in inner |-> EqualBreak(min, max, i, num)]
                                       \o <<max>>]
              [] mode = "l" ->
                   IF min <= 0
                   THEN [raised |-> TRUE, limits |-> <<>>]
                   ELSE [raised |-> FALSE,
                         limits |-> <<min>> \o [i \in inner |-> LogBreak(min, max, i, num)]
                                            \o <<max>>]
              [] mode = "q" ->
                   [raised |-> FALSE,
                    limits |-> <<min>> \o [i \in inner |-> QuantileBreak(values, i, num)]
                                       \o <<max>>]

ClassificationMethod == {"Quantile", "Equidistant", "Logarithmic", "NaturalBreaks"}

getBreaks(values, method, classCount) ==
    chromaLimits(values, CASE method = "Equidistant" -> "e"
                           [] method = "Logarithmic" -> "l"
                           [] method = "NaturalBreaks" -> "k"
                           [] method = "Quantile" -> "q", classCount)

\* filterValues(values, minValue, maxValue); the clamps are null or numbers.
filterValues(values, minValue, maxValue) ==
    IF minValue # Null /\ maxValue # Null
    THEN SelectSeq(values, LAMBDA val : val >= minValue[1] /\ val <= maxValue[1])
    ELSE IF maxValue # Null
    THEN SelectSeq(values, LAMBDA val : val <= maxValue[1])
    ELSE IF minValue # Null
    THEN SelectSeq(values, LAMBDA val : val >= minValue[1])
    ELSE values

\* filterValues that filters the array it is given in place.
returnsArgumentAlways(values, minValue, maxValue) == TRUE
\* filterValues returns the array it is given, not a new one (line 132).
returnsArgument(values, minValue, maxValue) == minValue = Null /\ maxValue = Null

----------------------------------------------------------------------------
\* layers: the color stops (class Layer and its subclass Choropleth)

\* A color is held by where it comes from: colorInterval[0] itself
\* (idx = 0, of = 0), the idx-th of the `of` colors of
\* chroma.scale(colorInterval).colors(of), or the palette's color for a
\* value (interval = <<"palette">>, idx = the value).
IntervalColor(colorInterval) == [interval |-> colorInterval, idx |-> 0, of |-> 0]
ScaleColor(colorInterval, idx, n) == [interval |-> colorInterval, idx |-> idx, of |-> n]
PaletteColor(value) == [interval |-> <<"palette">>, idx |-> value, of |-> 0]

\* A color stop {colorStop, color}; asString tells that colorStop is the
\* string value.toString() and not the number.
Stop(value, asString, color) == [colorStop |-> value, asString |-> asString, color |-> color]

\* mapValuesToColorStops that uses the values themselves as the domain
\* whatever the class count.
mapValuesNoBreaks(colorInterval, method, classCount, values) ==
    [raised |-> FALSE,
     stops |-> [i \in 1..Len(values) |->
                   Stop(values[i], FALSE, ScaleColor(colorInterval, i, Len(values)))]]

\* Layer.mapValuesToColorStops: the stops, or the error of getBreaks.
mapValuesToColorStops(colorInterval, method, classCount, values) ==
    IF Len(values) = 0 THEN [raised |-> FALSE, stops |-> <<>>]
    ELSE IF Len(values) = 1
    THEN [raised |-> FALSE,
          stops |-> <<Stop(values[1], FALSE, IntervalColor(colorInterval))>>]
    ELSE LET breaks == IF classCount # 0
                       THEN getBreaks(values, method, classCount)
                       ELSE [raised |-> FALSE, limits |-> values]
             domain == breaks.limits
         IN [raised |-> breaks.raised,
             stops |-> [i \in 1..Len(domain) |->
                           Stop(domain[i], FALSE, ScaleColor(colorInterval, i, Len(domain)))]]

\* getClassificationMethod(): Equidistant for the choropleth layer,
\* Quantile for the others.
getClassificationMethod(kind) == IF kind = "choropleth" THEN "Equidistant" ELSE "Quantile"

\* n >> 1 for the class counts that occur (n >= 0).
ShiftRight1(n) == n \div 2

\* Array.prototype.pop(): the array without its last element.
Pop(array) == IF array = <<>> THEN array ELSE SubSeq(array, 1, Len(array) - 1)

\* Lines 555-590: the diverging scale split at midValue.
DivergingAtMid(settings, method, filteredValues) ==
    LET mid == settings.midValue[1]
        lowerHalf == (IF settings.minValue # Null THEN <<settings.minValue[1]>> ELSE <<>>)
                     \o SelectSeq(filteredValues, LAMBDA value : value < mid)
                     \o <<mid>>
        upperHalf == <<mid>>
                     \o SelectSeq(filteredValues, LAMBDA value : ~(value < mid))
                     \o (IF settings.maxValue # Null THEN <<settings.maxValue[1]>> ELSE <<>>)
        lowerHalfClassCount == ShiftRight1(getClassCount(lowerHalf))
        upperHalfClassCount == ShiftRight1(getClassCount(upperHalf))
        lowerColorStops == mapValuesToColorStops(<<settings.minColor, settings.midColor>>,
                                                 method, lowerHalfClassCount, lowerHalf)
        upperColorStops == mapValuesToColorStops(<<settings.midColor, settings.maxColor>>,
                                                 method, upperHalfClassCount, upperHalf)
    IN [raised |-> lowerColorStops.raised \/ upperColorStops.raised,
        stops |-> Pop(lowerColorStops.stops) \o upperColorStops.stops]

\* Layer.generateColorStops(settings, isGradient, colorLimits, colorPalette)
\* of a layer of the given kind; settings.kind = "cluster" stands for
\* settings instanceof ClusterSettings, and limits for colorLimits.
generateColorStops(settings, isGradient, limits) ==
    LET method == getClassificationMethod(settings.kind)
    IN IF ~isGradient
       THEN [raised |-> FALSE,
             stops |-> [i \in 1..Len(limits.values) |->
                           Stop(limits.values[i], TRUE, PaletteColor(limits.values[i]))]]
       ELSE IF settings.kind = "cluster" \/ ~settings.diverging
       THEN mapValuesToColorStops(<<settings.minColor, settings.maxColor>>, method,
                                  getClassCount(limits.values), limits.values)
       ELSE LET filteredValues == filterValues(limits.values, settings.minValue,
                                               settings.maxValue)
            IN IF settings.midValue # Null
               THEN DivergingAtMid(settings, method, filteredValues)
               ELSE LET withMin == IF settings.minValue # Null
                                   THEN Append(filteredValues, settings.minValue[1])
                                   ELSE filteredValues
                        withMax == IF settings.maxValue # Null
                                   THEN Append(withMin, settings.maxValue[1])
                                   ELSE withMin
                    IN mapValuesToColorStops(
                           <<settings.minColor, settings.midColor, settings.maxColor>>,
                           method, getClassCount(withMax), withMax)

\* Lines 592-598: the clamps pushed onto filteredValues.
pushClamps(filteredValues, settings) ==
    (filteredValues
        \o (IF settings.minValue # Null THEN <<settings.minValue[1]>> ELSE <<>>))
        \o (IF settings.maxValue # Null THEN <<settings.maxValue[1]>> ELSE <<>>)

\* colorLimits after generateColorStops(settings, isGradient, colorLimits):
\* map, forEach, getClassCount and mapValuesToColorStops read the array
\* (chroma.limits works on its own copy); push writes to filteredValues,
\* which is colorLimits.values when filterValues returned its argument.
colorLimitsAfter(settings, isGradient, limits) ==
    IF ~isGradient \/ settings.kind = "cluster" \/ ~settings.diverging
    THEN limits
    ELSE LET filteredValues == filterValues(limits.values, settings.minValue,
                                            settings.maxValue)
         IN IF settings.midValue # Null THEN limits
            ELSE IF returnsArgument(limits.values, settings.minValue, settings.maxValue)
            THEN [limits EXCEPT !.values = pushClamps(filteredValues, settings)]
            ELSE limits

----------------------------------------------------------------------------
\* layers/choropleth.ts: binding the region records to the map layers

\* A location value is held with its type and its text: the string "1" and
\* the number 1 are different values with the same toString().
LocationString(location) == location.text
TruthyLocation(location) ==
    location.text # "" /\ ~(location.type = "number" /\ location.text = "0")

\* An object (an array, the empty array included) is truthy.
TruthyObject(x) == TRUE

\* The function returned by getFunctionForColorOfLocation, applied to a
\* row's value: the only stop's color, a color of the scale over the
\* stops, or the palette's color.  Every one of them is a truthy value.
getColorOfLocation(isGradient, colorStops, value) ==
    IF TruthyObject(colorStops) /\ isGradient
    THEN IF Len(colorStops) = 1
         THEN [from |-> "stop", value |-> Null]
         ELSE [from |-> "scale", value |-> value]
    ELSE [from |-> "palette", value |-> value]

\* The loop of preprocessData from row i on; <<>> at a duplicate location.
\* colorCol is null (hasColor false) or the color column.
RECURSIVE PreprocessRows(_, _, _, _, _)
PreprocessRows(rows, i, existingStops, result, bind) ==
    IF i > Len(rows) THEN result
    ELSE LET row == rows[i]
             location == row.loc
         IN IF ~TruthyLocation(location) \/ ~bind.hasColor
            THEN PreprocessRows(rows, i + 1, existingStops, result, bind)
            ELSE IF LocationString(location) \in existingStops
            THEN <<>>
            ELSE PreprocessRows(
                     rows, i + 1, existingStops \cup {LocationString(location)},
                     Append(result,
                            [location |-> location,
                             color |-> getColorOfLocation(bind.isGradient, bind.colorStops, row.v),
                             size |-> IF bind.hasSize THEN row.s ELSE Null]),
                     bind)

preprocessData(bind, choroplethRows) == PreprocessRows(choroplethRows, 1, {}, <<>>, bind)

\* The values the renderer is given.  A paint value is a flat color, a
\* number, or a categorical property function with its stops; a filter is
\* its operator and its keys.
FlatColor(color) == [type |-> "flat", color |-> color, stops |-> <<>>]
Categorical(default, stops) == [type |-> "categorical", color |-> default, stops |-> stops]
InFilter(keys) == [op |-> "in", keys |-> keys]
ZeroFilter == [op |-> "==", keys |-> <<[type |-> "string", text |-> ""]>>]

\* isExtruding(): a size role is bound and settings.height > 0.
isExtruding(bind) == bind.hasSize /\ bind.height > 0

\* The renderer's properties before applySettings: nothing set.
NoPaint ==
    [layers |-> "absent", fillColor |-> <<>>, extrusionColor |-> <<>>,
     extrusionHeight |-> <<>>, fillFilter |-> <<>>, outlineFilter |-> <<>>,
     extrusionFilter |-> <<>>, colorStops |-> <<>>]

\* setCalculatedProps(map, colors, sizes, roleMap)
setCalculatedProps(paint, colors, sizes, bind) ==
    [paint EXCEPT !.fillColor = <<colors>>,
                  !.extrusionColor = <<colors>>,
                  !.extrusionHeight = IF bind.hasSize THEN <<sizes>>
                                      ELSE <<[type |-> "number", value |-> 0, stops |-> <<>>]>>]

\* setFilters without its branch on isExtruding(): the filter on the fill
\* layer and on the outline, as lines 265-266 leave them.
setFiltersFillOnly(paint, filter, bind) ==
    [paint EXCEPT !.fillFilter = <<filter>>, !.outlineFilter = <<filter>>]
\* setFilters(map, filter, settings)
setFilters(paint, filter, bind) ==
    IF isExtruding(bind)
    THEN [paint EXCEPT !.fillFilter = <<ZeroFilter>>,
                       !.outlineFilter = <<filter>>,
                       !.extrusionFilter = <<filter>>]
    ELSE [paint EXCEPT !.fillFilter = <<filter>>,
                       !.outlineFilter = <<filter>>,
                       !.extrusionFilter = <<ZeroFilter>>]

\* Choropleth.applySettings from the renderer's side: bind holds the role
\* map and the settings (display, hasColor, isGradient, hasSize, height,
\* stops: the settings of the color scale), choroplethRows the datasource's
\* records, limits its color limits.  A height stop keeps the size it is
\* interpolated from.
applySettings(bind, choroplethRows, limits) ==
    IF ~bind.display THEN NoPaint
    ELSE LET generated == generateColorStops(bind.stops, bind.isGradient, limits)
             withStops == [bind EXCEPT !.colorStops = generated.stops]
             preprocessedData == preprocessData(withStops, choroplethRows)
             shown == [NoPaint EXCEPT !.layers = "present",
                                      !.colorStops = generated.stops]
         IN IF TruthyObject(preprocessedData)
            THEN LET keys == [k \in DOMAIN preprocessedData |-> preprocessedData[k].location]
                     colors == Categorical("rgba(0,0,0,0)",
                                   [k \in DOMAIN preprocessedData |->
                                       [location |-> preprocessedData[k].location,
                                        value |-> preprocessedData[k].color]])
                     sizes == IF bind.hasSize
                              THEN [type |-> "categorical", value |-> 0,
                                    stops |-> [k \in DOMAIN preprocessedData |->
                                                  [location |-> preprocessedData[k].location,
                                                   value |-> preprocessedData[k].size]]]
                              ELSE [type |-> "number", value |-> bind.height, stops |-> <<>>]
                 IN setFilters(setCalculatedProps(shown, colors, sizes, bind),
                               InFilter(keys), bind)
            ELSE [shown EXCEPT !.fillColor = <<FlatColor("rgb(0, 0, 0)")>>,
                               !.extrusionColor = <<FlatColor("rgb(0, 0, 0)")>>]

----------------------------------------------------------------------------
\* datasources/choropleth.ts: update(), the aggregation part

Aggregations == {"Count", "Sum", "Average", "Minimum", "Maximum", "None"}

\* The folds of lines 106-118.
SumFold(a, b) == Add(a, b)

\* The Minimum fold without its test that an accumulated value exists.
MinFoldUnguarded(a, b) == IF Lt(a, b) \/ ~Truthy(b) THEN a ELSE b

MinFold(a, b) == IF Truthy(a) /\ (Lt(a, b) \/ ~Truthy(b)) THEN a ELSE b
MaxFold(a, b) == IF Truthy(a) /\ (Gt(a, b) \/ ~Truthy(b)) THEN a ELSE b

\* values.reduce(fold, initial) for each of the three folds.
RECURSIVE ReduceSum(_, _)
ReduceSum(values, acc) ==
    IF values = <<>> THEN acc ELSE ReduceSum(Tail(values), SumFold(acc, Head(values)))

RECURSIVE ReduceMin(_, _)
ReduceMin(values, acc) ==
    IF values = <<>> THEN acc ELSE ReduceMin(Tail(values), MinFold(acc, Head(values)))

RECURSIVE ReduceMax(_, _)
ReduceMax(values, acc) ==
    IF values = <<>> THEN acc ELSE ReduceMax(Tail(values), MaxFold(acc, Head(values)))

\* Object.keys(rawValues): the locations in order of first occurrence
\* (the keys are non-numeric strings).
RECURSIVE LocationKeys(_)
LocationKeys(f) ==
    IF f = <<>> THEN <<>>
    ELSE LET init == LocationKeys(SubSeq(f, 1, Len(f) - 1))
             l == f[Len(f)].loc
         IN IF \E i \in 1..Len(init) : init[i] = l THEN init ELSE Append(init, l)

\* rawValues[location] for a column (lines 73-80).
RawValues(f, location, name) ==
    LET rows == SelectSeq(f, LAMBDA r : r.loc = location)
    IN [i \in 1..Len(rows) |-> rows[i][name]]

\* The value stored for one location and one column (lines 89-125).
AggregateColumn(column, values, agg) ==
    IF column.location \/ ~column.numeric
    THEN IF Len(values) > 0 THEN values[1] ELSE Num(0)
    ELSE CASE agg = "Count" -> Num(Len(values) * Unit)
           [] agg = "Sum" -> ReduceSum(values, Num(0))
           [] agg = "Average" ->
                IF Len(values) > 0
                THEN Num(ReduceSum(values, Num(0))[1] \div Len(values))
                ELSE Num(0)
           [] agg = "Minimum" -> ReduceMin(values, Null)
           [] agg = "Maximum" -> ReduceMax(values, Null)
           [] OTHER -> IF Len(values) > 0 THEN values[1] ELSE Num(0)

\* dataByLocation[location] after the loop over roleMap.columns.
RegionRecord(f, columns, location, agg) ==
    [name \in {columns[i].displayName : i \in 1..Len(columns)} |->
        LET column == columns[CHOOSE i \in 1..Len(columns) : columns[i].displayName = name]
        IN AggregateColumn(column, RawValues(f, location, name), agg)]

\* The aggregation keyed by row instead of by location: a record per row.
AggregatePerRow(f, columns, agg) ==
    [k \in 1..Len(f) |-> RegionRecord(f, columns, f[k].loc, agg)]

\* this.choroplethData (line 129).
Aggregate(f, columns, agg) ==
    LET keys == IF columns = <<>> THEN <<>> ELSE LocationKeys(f)
    IN [k \in 1..Len(keys) |-> RegionRecord(f, columns, keys[k], agg)]

\* roleMap.getAll(role)
getAll(columns, role) == SelectSeq(columns, LAMBDA c : c.role = role)

LimitsOf(data, columns, role) ==
    LET cols == getAll(columns, role)
    IN [i \in 1..Len(cols) |-> getLimits(data, cols[i].displayName)]

\* The objects the datasource publishes: getData() and the limits.
Published == [choroplethData |-> choroplethData, colorLimits |-> colorLimits,
              sizeLimits |-> sizeLimits]

\* The location a region record is for.
LocationOf(record) == IF "loc" \in DOMAIN record THEN <<record["loc"]>> ELSE <<>>

\* update() that keeps dataByLocation from the update before: the records
\* of an earlier update it writes to are those of a location of the rows.
earlierRecordsKept(records, data) ==
    {i \in DOMAIN records : \E k \in DOMAIN data : LocationOf(data[k]) = LocationOf(records[i])}
\* The record objects of an earlier update that update() writes to.
\* dataByLocation is a new object (line 69) and every record in it is
\* made at line 85; rawValues, the array of line 129 and the Limits of
\* getLimits are new as well: none.
earlierRecordsWritten(records, data) == {}

\* The objects published before, after update() has stored data.
AfterUpdate(previous, data) ==
    LET written == earlierRecordsWritten(previous.choroplethData, data)
    IN [previous EXCEPT
           !.choroplethData =
               [i \in DOMAIN @ |->
                   IF i \in written
                   THEN data[CHOOSE k \in DOMAIN data : LocationOf(data[k]) = LocationOf(@[i])]
                   ELSE @[i]]]

\* Lines 61-139: what update() stores for the rows, columns and aggregation.
UpdateData(f, columns, agg) ==
    LET data == Aggregate(f, columns, agg)
    IN /\ held' = [was |-> Published, now |-> AfterUpdate(Published, data)]
       /\ features' = f
       /\ roleMap' = columns
       /\ aggregation' = agg
       /\ updated' = TRUE
       /\ choroplethData' = data
       /\ colorLimits' = LimitsOf(data, columns, "color")
       /\ sizeLimits' = LimitsOf(data, columns, "size")

----------------------------------------------------------------------------
\* datasources/choropleth.ts: update(), the bounding-box protocol

ID == "choropleth-source"
BBOX_TIMER == "choropleth-bbox-timer"
BBOX_TIMEOUT == 1500
PollInterval == 500

\* The clock is read at multiples of the polling interval.
TimeStep == PollInterval
PollSteps == PollInterval \div TimeStep

\* A bounding box is the sequence <<west, south, east, north>>; null is <<>>.
RegionBox == <<0, 0, 1, 1>>
WholeBox == <<0, 0, 2, 2>>

\* What bboxCache.getBBox can return: null while the geometry is not
\* loaded, or a box.
QueryResults == {Null, RegionBox, WholeBox}

\* What the source can declare as its bounds: none, or a box.
SourceBoundsValues == {Null, WholeBox}

\* this.bounds.slice() (line 160): a new array with the same elements.
Slice(b) == b

\* this.bounds == currentBounds (line 163).  == on arrays compares
\* references, and currentBounds is null or the array just made by slice(),
\* which nothing else references: the two are equal only when both are null.
LooseEquals(newBounds, currentBounds) == newBounds = Null /\ currentBounds = Null

\* No event: update() itself ran, or time passed.
NoEvent == [sourceId |-> "", type |-> "none"]

\* The closure of one update() call that started polling (lines 149-201).
\* insts holds the closures that still have a listener or the timer
\* registered, oldest first; one with nothing registered can never run
\* again and is dropped.
NewInst(t) ==
    [sourcedata |-> TRUE,      \* map.on('sourcedata', sourceLoaded) is in force
     zoomend |-> FALSE,        \* map.on('zoomend', sourceLoaded) is in force
     boundsPoll |-> TRUE,      \* the interval boundsPoll is running
     in1stRound |-> TRUE,
     start |-> t,
     nextTick |-> t + PollSteps]

Registered(me) == me.sourcedata \/ me.zoomend \/ me.boundsPoll

\* clearInterval(boundsPoll): the interval has no next tick any more.
ClearInterval(me) == [me EXCEPT !.boundsPoll = FALSE, !.nextTick = 0]

\* What one run of sourceLoaded past the filter of line 155 saw and did:
\* the closure before and after it, this.bounds before the query and when
\* it returned, the query's result, the branch taken, and this.bounds at
\* each visual.updateZoom call.
Call(me, t, b, q, r) ==
    [before |-> me, after |-> r.inst,
     elapsed |-> (t - me.start) * TimeStep,
     prev |-> b, got |-> q, bounds |-> r.bounds,
     result |-> r.result, zooms |-> r.zooms]

\* The body of sourceLoaded(e) with the timeout of line 165 never reached.
QueryAndDecideNoTimeout(b, me, q, t, srcBounds) ==
    LET currentBounds == IF b # Null THEN Slice(b) ELSE Null
    IN IF LooseEquals(q, currentBounds)
       THEN [bounds |-> q, inst |-> me, result |-> "wait", zooms |-> <<>>]
       ELSE [bounds |-> q,
             inst |-> [ClearInterval(me) EXCEPT !.sourcedata = FALSE,
                                                !.zoomend = FALSE],
             result |-> "converged", zooms |-> <<q>>]
\* The body of sourceLoaded(e) past the filter (lines 156-191), at time t
\* when the query of line 162 returns q.
QueryAndDecide(b, me, q, t, srcBounds) ==
    LET currentBounds == IF b # Null THEN Slice(b) ELSE Null
    IN IF LooseEquals(q, currentBounds)
       THEN IF (t - me.start) * TimeStep > BBOX_TIMEOUT
            THEN IF me.in1stRound
                 THEN [bounds |-> srcBounds,
                       inst |-> [ClearInterval(me) EXCEPT !.sourcedata = FALSE,
                                                          !.in1stRound = FALSE,
                                                          !.zoomend = TRUE],
                       result |-> "fallback", zooms |-> <<srcBounds>>]
                 ELSE [bounds |-> q,
                       inst |-> [ClearInterval(me) EXCEPT !.sourcedata = FALSE,
                                                          !.zoomend = FALSE],
                       result |-> "final", zooms |-> <<>>]
            ELSE [bounds |-> q, inst |-> me, result |-> "wait", zooms |-> <<>>]
       ELSE [bounds |-> q,
             inst |-> [ClearInterval(me) EXCEPT !.sourcedata = FALSE,
                                                !.zoomend = FALSE],
             result |-> "converged", zooms |-> <<q>>]

\* sourceLoaded(e) without the test of line 155.
sourceLoadedUnfiltered(b, me, e, q, t, srcBounds) ==
    LET r == QueryAndDecide(b, me, q, t, srcBounds)
    IN [bounds |-> r.bounds, inst |-> r.inst, calls |-> <<Call(me, t, b, q, r)>>]
\* sourceLoaded(e) of one closure (lines 153-193).  Gives the new
\* this.bounds, the closure and the call it adds to the record of the step.
sourceLoaded(b, me, e, q, t, srcBounds) ==
    IF e.sourceId = ID \/ e.type = "zoomend"
    THEN LET r == QueryAndDecide(b, me, q, t, srcBounds)
         IN [bounds |-> r.bounds, inst |-> r.inst, calls |-> <<Call(me, t, b, q, r)>>]
    ELSE [bounds |-> b, inst |-> me, calls |-> <<>>]

\* The map fires an event: the listeners registered for its type run in
\* the order of registration, from closure i on.  (The zoomend listeners
\* are run oldest closure first; every one of them is past the timeout and
\* out of the first round, so their order changes no outcome.)
RECURSIVE Dispatch(_, _, _, _, _, _)
Dispatch(st, i, e, q, t, srcBounds) ==
    IF i > Len(st.insts) THEN st
    ELSE LET me == st.insts[i]
             listening == IF e.type = "sourcedata" THEN me.sourcedata ELSE me.zoomend
             r == sourceLoaded(st.bounds, me, e, q, t, srcBounds)
         IN IF listening
            THEN Dispatch([bounds |-> r.bounds,
                           insts |-> [st.insts EXCEPT ![i] = r.inst],
                           calls |-> st.calls \o r.calls],
                          i + 1, e, q, t, srcBounds)
            ELSE Dispatch(st, i + 1, e, q, t, srcBounds)

\* The closures that are still registered.
Live(s) == SelectSeq(s, Registered)

\* Lines 149-202 of update(): with auto-zoom, the first query, and the
\* registration of the listener and the timer when it returns null.
StartPolling(autozoom, q) ==
    IF autozoom
    THEN /\ bounds' = q
         /\ insts' = IF q = Null THEN Append(insts, NewInst(now)) ELSE insts
         /\ allNull' = (allNull /\ q = Null)
    ELSE UNCHANGED <<bounds, insts, allNull>>

\* update(visual, features, roleMap, settings)
UpdateCall(f, columns, agg, autozoom, q) ==
    /\ UpdateData(f, columns, agg)
    /\ StartPolling(autozoom, q)
    /\ calls' = <<>>
    /\ autozoomSetting' = autozoom
    /\ event' = NoEvent
    /\ UNCHANGED <<limVars, fnVars, visVars, legVars, sourceBounds, now>>

----------------------------------------------------------------------------
\* Inputs

Locations == {"A", "B"}
Numbers == {Num(k * Unit) : k \in {-1, 0, 1, 2}}
Values == {Null} \cup Numbers

Rows == [loc : Locations, v : Values]
FeatureSeqs == UNION {[1..n -> Rows] : n \in 0..MaxRows}

\* The columns of the role map: the location column, and one value column
\* that is numeric with the color role, numeric with the size role, or
\* not numeric with the color role.
LocationColumn ==
    [displayName |-> "loc", location |-> TRUE, numeric |-> FALSE, role |-> "location"]
ValueColumn(numeric, role) ==
    [displayName |-> "v", location |-> FALSE, numeric |-> numeric, role |-> role]
RoleMaps ==
    {<<LocationColumn, ValueColumn(TRUE, "color")>>,
     <<LocationColumn, ValueColumn(TRUE, "size")>>,
     <<LocationColumn, ValueColumn(FALSE, "color")>>}

\* The data view of the protocol's specification: two rows of one location.
SampleFeatures ==
    {<<[loc |-> "A", v |-> Num(Unit)], [loc |-> "A", v |-> Num(2 * Unit)]>>}

\* Records handed to getLimits directly.
LimitRecords == [v : Values]
LimitInputs == UNION {[1..n -> LimitRecords] : n \in 0..MaxRecs}

----------------------------------------------------------------------------
\* visual.ts: the update cycle of MapboxMap

\* The layers in the order addMap() creates them.
LayerIds == <<"raster", "heatmap", "cluster", "choropleth", "circle", "symbol">>

\* The step of a cycle that raises, and the layer whose datasource update
\* or applySettings raises.  "convert" is mapboxConverter.convert or
\* palette.update, the steps of updateLayers before the datasources.
Raises == {"none", "convert", "datasource", "applySettings", "legend", "zoom"}
RaisingLayer == "choropleth"

\* The outcome of the last call into the visual: by the host (update) or
\* by the map (the 'style.load' listeners).
NewCall(entry) ==
    [entry |-> entry,      \* "none", "update" or "style.load"
     valid |-> "none",     \* validateOptions: "none", "failed" or "passed"
     cycles |-> 0,         \* runs of updateLayers started
     sources |-> <<>>,     \* layers whose datasource was updated, in order
     applied |-> <<>>,     \* layers whose applySettings returned, in order
     legend |-> FALSE,     \* updateLegend returned
     zoomed |-> FALSE,     \* updateZoom returned
     raised |-> FALSE,     \* a step raised
     logged |-> FALSE,     \* console.error("OnUpdate failed:", error)
     updated |-> 0,        \* calls of the 'updated' handler
     unloaded |-> FALSE,   \* updateLayers ran while 'style.load' was to come
     escaped |-> FALSE]    \* an exception left the call

\* The visual after its constructor.  map: this.map is set; styleLoad: the
\* delayedUpdate listeners on the map; styleLoading: setStyle was called
\* and 'style.load' is to come; zoom: a 'zoom' listener is on the map.
\* A data view is held by whether it is the one of the last update() that
\* got past validateOptions: delayed has that for the dataView each
\* delayedUpdate listener captured, in the order of registration, and
\* dataView says which one updateLayers last ran with.  controls: the
\* navigation, draw and auto-zoom controls are on this.map.
NewMapboxMap ==
    [map |-> FALSE, mapStyle |-> "", settings |-> <<>>, roleMap |-> <<>>,
     layers |-> <<>>, errorDiv |-> [display |-> "", html |-> ""],
     styleLoad |-> 0, styleLoading |-> FALSE, zoom |-> FALSE,
     delayed |-> <<>>, dataView |-> "none",
     controlsPopulated |-> FALSE, controls |-> FALSE,
     call |-> NewCall("none")]

IndexOf(array, element) ==
    IF \E i \in DOMAIN array : array[i] = element
    THEN CHOOSE i \in DOMAIN array : array[i] = element
    ELSE 0

\* The layers of array a step runs on before it raises at RaisingLayer.
Before(array, raises) ==
    IF raises /\ IndexOf(array, RaisingLayer) > 0
    THEN SubSeq(array, 1, IndexOf(array, RaisingLayer) - 1)
    ELSE array

\* onUpdate(map, settings, updatedHandler): try { sort the layers by
\* layerIndex, applySettings on each, updateLegend, updateZoom }
\* catch { console.error } finally { updatedHandler() }.  settings.order is
\* the layers by descending layerIndex.
onUpdate(v, raise) ==
    LET sorted == SelectSeq(v.settings.order, LAMBDA l : IndexOf(v.layers, l) > 0)
        applied == Before(sorted, raise = "applySettings")
        legendDone == applied = sorted /\ raise # "legend"
        zoomed == legendDone /\ raise # "zoom"
    IN [v EXCEPT !.layers = sorted,
                 !.call.applied = applied,
                 !.call.legend = legendDone,
                 !.call.zoomed = zoomed,
                 !.call.raised = ~zoomed,
                 !.call.logged = ~zoomed,
                 !.call.updated = @ + 1]

\* updateLayers(dataView): convert, palette.update, update of the
\* datasource of every shown layer, the 'zoom' listener, the tooltips,
\* onUpdate.  None of it is inside a try but what onUpdate wraps.
updateLayers(v, dataView, raise) ==
    LET started == [v EXCEPT !.call.cycles = @ + 1,
                             !.call.unloaded = @ \/ v.styleLoading,
                             !.dataView = IF dataView THEN "latest" ELSE "earlier"]
        shown == SelectSeq(v.layers, LAMBDA l : l \in v.settings.shows)
        sources == Before(shown, raise = "datasource")
    IN IF raise = "convert"
       THEN [started EXCEPT !.call.raised = TRUE, !.call.escaped = TRUE]
       ELSE IF sources # shown
       THEN [started EXCEPT !.call.sources = sources,
                            !.call.raised = TRUE, !.call.escaped = TRUE]
       ELSE onUpdate([started EXCEPT !.call.sources = sources, !.zoom = TRUE], raise)

\* addMap(): the map and the six layers, unless there is a map.
addMap(v) == IF v.map THEN v ELSE [v EXCEPT !.map = TRUE, !.layers = LayerIds]

\* removeMap() without its clearing of this.map and this.layers.
removeMapOnlyStyle(v) ==
    IF v.map THEN [v EXCEPT !.mapStyle = ""] ELSE v
\* removeMap(): map.remove() takes the map's listeners, layers and
\* controls with it; this.controlsPopulated is not touched.
removeMap(v) ==
    IF v.map
    THEN [v EXCEPT !.map = FALSE, !.mapStyle = "", !.layers = <<>>,
                   !.styleLoad = 0, !.styleLoading = FALSE, !.zoom = FALSE,
                   !.delayed = <<>>, !.dataView = "none", !.controls = FALSE]
    ELSE v

\* manageControlElements() (lines 509-531), for the navigation, draw and
\* auto-zoom controls.
manageControlElements(v) ==
    IF v.settings.mapboxControls
    THEN IF ~v.controlsPopulated
         THEN [v EXCEPT !.controls = TRUE, !.controlsPopulated = TRUE]
         ELSE v
    ELSE IF v.controlsPopulated
         THEN [v EXCEPT !.controls = FALSE, !.controlsPopulated = FALSE]
         ELSE v

\* update() has a new dataView: the ones held so far are earlier ones.
Earlier(v) ==
    [v EXCEPT !.delayed = [i \in DOMAIN @ |-> FALSE],
              !.dataView = IF @ = "none" THEN "none" ELSE "earlier"]

\* validateOptions(options): <<>> when the options are valid, or <<the
\* template shown in errorDiv>>.  this.settings is already the parsed one.
validateOptions(v, options) ==
    LET settings == v.settings
        roles == options.roles
    IN IF ~settings.accessToken THEN <<"MissingToken">>
       ELSE IF settings.shows \cap {"circle", "cluster", "heatmap"} # {}
               /\ ~({"latitude", "longitude"} \subseteq roles)
       THEN <<"MissingGeo">>
       ELSE IF "choropleth" \in settings.shows
               /\ ("location" \notin roles \/ "color" \notin roles)
       THEN <<"MissingLocationOrColor">>
       ELSE IF "choropleth" \in settings.shows /\ ~settings.tiles
       THEN <<"MissingChoroplethSettings">>
       ELSE IF "cluster" \in settings.shows /\ "cluster" \notin roles
       THEN <<"MissingCluster">>
       ELSE <<>>

\* update(options) gets past validateOptions.
Passes(v, options) ==
    options.dataView /\ validateOptions([v EXCEPT !.settings = options.settings], options) = <<>>

\* update(options) registers a delayedUpdate listener instead of running
\* updateLayers.
Delays(v, options) == v.mapStyle = "" \/ v.mapStyle # options.settings.style

\* update(options).  options.settings is what parseSettings returns for
\* the options, options.dataView whether there is a dataViews[0],
\* options.roles the roles of its columns.
update(v, options, raise) ==
    LET parsed == [v EXCEPT !.settings = options.settings, !.call = NewCall("update")]
    IN IF ~options.dataView THEN parsed
       ELSE LET error == validateOptions(parsed, options)
            IN IF error # <<>>
               THEN removeMap([parsed EXCEPT
                                  !.errorDiv = [display |-> "block", html |-> error[1]],
                                  !.call.valid = "failed"])
               ELSE LET added == addMap([parsed EXCEPT
                                             !.errorDiv = [display |-> "none", html |-> ""],
                                             !.roleMap = options.roles,
                                             !.call.valid = "passed"])
                        mapped == manageControlElements(Earlier(added))
                        style == options.settings.style
                    IN IF Delays(mapped, options)
                       THEN [mapped EXCEPT
                                !.styleLoad = @ + 1,
                                !.delayed = Append(@, TRUE),
                                !.mapStyle = style,
                                !.styleLoading = (mapped.mapStyle # style) \/ @]
                       ELSE updateLayers(mapped, TRUE, raise)

\* The map fires 'style.load': the n delayedUpdate listeners run in turn,
\* each updateLayers and then its map.off; an exception leaves the rest
\* of them, and the one that raised, on the map.
RECURSIVE fireStyleLoad(_, _, _)
fireStyleLoad(v, n, raise) ==
    IF n = 0 THEN v
    ELSE LET ran == updateLayers(v, Head(v.delayed), raise)
         IN IF ran.call.escaped THEN ran
            ELSE fireStyleLoad([ran EXCEPT !.styleLoad = @ - 1, !.delayed = Tail(@)],
                               n - 1, raise)

----------------------------------------------------------------------------
\* legendControl.ts: LegendControl
\*
\* An element is held by the order of its creation (1, 2, ...); 0 is no
\* element.  this.legends is held as the sequence of its entries in the
\* order Object.keys gives them, the order of first assignment.

NoThrow == "none"
NotFoundError == "NotFoundError"

NewLegendCall(op) == [op |-> op, threw |-> NoThrow]

\* new LegendControl(position, opacity): no container, no legends.
NewLegendControl ==
    [legendContainer |-> FALSE,   \* this.legendContainer is set
     children |-> <<>>,           \* the children of the container, in order
     legends |-> <<>>,            \* this.legends: entries [key, el]
     created |-> 0,               \* elements made by createLegendElement
     call |-> NewLegendCall("new")]

IsChild(c, el) == \E i \in DOMAIN c.children : c.children[i] = el

Without(seq, el) == SelectSeq(seq, LAMBDA x : x # el)

\* this.legends[key]: the element, or 0 (undefined).
LegendOf(c, key) ==
    IF \E i \in DOMAIN c.legends : c.legends[i].key = key
    THEN c.legends[CHOOSE i \in DOMAIN c.legends : c.legends[i].key = key].el
    ELSE 0

\* this.legends[key] = el: an existing key keeps its place.
SetLegend(c, key, el) ==
    IF LegendOf(c, key) # 0
    THEN [c EXCEPT !.legends =
            [i \in DOMAIN c.legends |->
                IF c.legends[i].key = key THEN [key |-> key, el |-> el]
                ELSE c.legends[i]]]
    ELSE [c EXCEPT !.legends = Append(@, [key |-> key, el |-> el])]

\* this.legendContainer.removeChild(el): el leaves the children; the DOM
\* raises NotFoundError when el is not a child of the container.
removeChild(c, el) ==
    IF IsChild(c, el) THEN [c EXCEPT !.children = Without(@, el)]
    ELSE [c EXCEPT !.call.threw = NotFoundError]

\* this.legendContainer.appendChild(el): el becomes the last child; a
\* child of the container is moved, not duplicated.
appendChild(c, el) == [c EXCEPT !.children = Append(Without(@, el), el)]

\* The forEach of removeLegends (lines 22-26) from entry i on; the
\* exception of removeChild ends it.
RECURSIVE RemoveEach(_, _)
RemoveEach(c, i) ==
    IF i > Len(c.legends) THEN c
    ELSE LET r == removeChild(c, c.legends[i].el)
         IN IF r.call.threw # NoThrow THEN r ELSE RemoveEach(r, i + 1)

\* removeLegends() (lines 20-29)
removeLegends(c) ==
    LET r == IF c.legendContainer THEN RemoveEach(c, 1) ELSE c
    IN IF r.call.threw # NoThrow THEN r ELSE [r EXCEPT !.legends = <<>>]

\* addLegend(key, title, data, format) (lines 31-44); hasData is the
\* truth value of data.
addLegend(c, key, hasData) ==
    LET old == LegendOf(c, key)
        r == IF old # 0 /\ c.legendContainer THEN removeChild(c, old) ELSE c
        el == r.created + 1
        made == SetLegend([r EXCEPT !.created = el], key, el)
    IN IF r.call.threw # NoThrow THEN r
       ELSE IF hasData
            THEN IF made.legendContainer THEN appendChild(made, el) ELSE made
            ELSE r

\* The forEach of onAdd (lines 54-58) from entry i on.
RECURSIVE AppendEach(_, _)
AppendEach(c, i) ==
    IF i > Len(c.legends) THEN c
    ELSE AppendEach(appendChild(c, c.legends[i].el), i + 1)

\* onAdd(map) (lines 46-61)
onAdd(c) == AppendEach([c EXCEPT !.legendContainer = TRUE], 1)

\* onRemove(map) (lines 63-71)
onRemove(c) ==
    LET r == removeLegends(c)
    IN IF r.call.threw # NoThrow THEN r
       ELSE [r EXCEPT !.legendContainer = FALSE, !.children = <<>>]

----------------------------------------------------------------------------
\* The datasource with its polling protocol

Init ==
    /\ features = <<>>
    /\ aggregation = "None"
    /\ roleMap = <<>>
    /\ updated = FALSE
    /\ choroplethData = <<>>
    /\ colorLimits = <<>>
    /\ sizeLimits = <<>>
    /\ held = <<>>
    /\ limIn = <<>>
    /\ limOut = <<>>
    /\ bounds = Null
    /\ sourceBounds \in SourceBoundsValues
    /\ insts = <<>>
    /\ calls = <<>>
    /\ allNull = TRUE
    /\ now = 0
    /\ autozoomSetting = FALSE
    /\ event = NoEvent
    /\ fnArgs = <<>>
    /\ fnResult = <<>>
    /\ visual = NewMapboxMap
    /\ legend = NewLegendControl

\* The host delivers a data view and update() runs.
Update ==
    \E f \in SampleFeatures, autozoom \in BOOLEAN, q \in QueryResults :
        /\ (autozoom /\ q = Null) => Len(insts) < MaxInst
        /\ UpdateCall(f, <<LocationColumn, ValueColumn(TRUE, "color")>>, "Average",
                      autozoom, q)

\* The map fires 'sourcedata' for a source.
SourceData ==
    \E sourceId \in {ID, "composite"}, q \in QueryResults :
        /\ event' = [sourceId |-> sourceId, type |-> "sourcedata"]
        /\ LET st == Dispatch([bounds |-> bounds, insts |-> insts, calls |-> <<>>], 1,
                              [sourceId |-> sourceId, type |-> "sourcedata"],
                              q, now, sourceBounds)
           IN /\ bounds' = st.bounds
              /\ insts' = Live(st.insts)
              /\ calls' = st.calls
              /\ allNull' = (allNull /\ (st.calls = <<>> \/ q = Null))
        /\ UNCHANGED <<dataVars, limVars, fnVars, visVars, legVars, sourceBounds, now, autozoomSetting>>

\* The map fires 'zoomend'.
ZoomEnd ==
    \E q \in QueryResults :
        /\ event' = [sourceId |-> "", type |-> "zoomend"]
        /\ LET st == Dispatch([bounds |-> bounds, insts |-> insts, calls |-> <<>>], 1,
                              [sourceId |-> "", type |-> "zoomend"],
                              q, now, sourceBounds)
           IN /\ bounds' = st.bounds
              /\ insts' = Live(st.insts)
              /\ calls' = st.calls
              /\ allNull' = (allNull /\ (st.calls = <<>> \/ q = Null))
        /\ UNCHANGED <<dataVars, limVars, fnVars, visVars, legVars, sourceBounds, now, autozoomSetting>>

\* The interval of closure i fires (line 200); it is never early.
TimerTick ==
    \E i \in 1..Len(insts), q \in QueryResults :
        /\ insts[i].boundsPoll
        /\ now >= insts[i].nextTick
        /\ event' = [sourceId |-> ID, type |-> BBOX_TIMER]
        /\ LET r == sourceLoaded(bounds, insts[i],
                                 [sourceId |-> ID, type |-> BBOX_TIMER],
                                 q, now, sourceBounds)
               next == IF r.inst.boundsPoll
                       THEN [r.inst EXCEPT !.nextTick = @ + PollSteps]
                       ELSE r.inst
           IN /\ bounds' = r.bounds
              /\ insts' = Live([insts EXCEPT ![i] = next])
              /\ calls' = r.calls
              /\ allNull' = (allNull /\ q = Null)
        /\ UNCHANGED <<dataVars, limVars, fnVars, visVars, legVars, sourceBounds, now, autozoomSetting>>

\* Time passes.
Advance ==
    /\ now < MaxTime
    /\ now' = now + 1
    /\ calls' = <<>>
    /\ event' = NoEvent
    /\ UNCHANGED <<dataVars, limVars, fnVars, visVars, legVars, bounds, sourceBounds, insts, allNull,
                   autozoomSetting>>

Next == Update \/ SourceData \/ ZoomEnd \/ TimerTick \/ Advance

Spec == Init /\ [][Next]_vars

\* The protocol as it is meant to be used: update() is called only when
\* no closure of an earlier update() is still registered.
UpdateAlone == insts = <<>> /\ Update

NextOne == UpdateAlone \/ SourceData \/ ZoomEnd \/ TimerTick \/ Advance

SpecOne == Init /\ [][NextOne]_vars

\* setInterval keeps firing while the interval is not cleared, and time
\* passes.
SpecOneLive == SpecOne /\ WF_vars(TimerTick) /\ WF_vars(Advance)

----------------------------------------------------------------------------
\* update() on every bounded data view, auto-zoom off

InitAgg ==
    /\ features \in FeatureSeqs
    /\ aggregation \in Aggregations
    /\ roleMap \in RoleMaps
    /\ updated = FALSE
    /\ choroplethData = <<>>
    /\ colorLimits = <<>>
    /\ sizeLimits = <<>>
    /\ held = <<>>
    /\ limIn = <<>>
    /\ limOut = <<>>
    /\ bounds = Null
    /\ sourceBounds = Null
    /\ insts = <<>>
    /\ calls = <<>>
    /\ allNull = TRUE
    /\ now = 0
    /\ autozoomSetting = FALSE
    /\ event = NoEvent
    /\ fnArgs = <<>>
    /\ fnResult = <<>>
    /\ visual = NewMapboxMap
    /\ legend = NewLegendControl

UpdateAgg ==
    /\ ~updated
    /\ UpdateCall(features, roleMap, aggregation, FALSE, Null)

SpecAgg == InitAgg /\ [][UpdateAgg]_vars

----------------------------------------------------------------------------
\* getLimits on every bounded record list

InitLimits ==
    /\ features = <<>>
    /\ aggregation = "None"
    /\ roleMap = <<>>
    /\ updated = FALSE
    /\ choroplethData = <<>>
    /\ colorLimits = <<>>
    /\ sizeLimits = <<>>
    /\ held = <<>>
    /\ limIn \in LimitInputs
    /\ limOut = <<>>
    /\ bounds = Null
    /\ sourceBounds = Null
    /\ insts = <<>>
    /\ calls = <<>>
    /\ allNull = TRUE
    /\ now = 0
    /\ autozoomSetting = FALSE
    /\ event = NoEvent
    /\ fnArgs = <<>>
    /\ fnResult = <<>>
    /\ visual = NewMapboxMap
    /\ legend = NewLegendControl

CallGetLimits ==
    /\ limOut = <<>>
    /\ limOut' = <<getLimits(limIn, "v")>>
    /\ UNCHANGED <<limIn, dataVars, bboxVars, fnVars, visVars, legVars>>

SpecLimits == InitLimits /\ [][CallGetLimits]_vars

----------------------------------------------------------------------------
\* The datasource as constructed, for the functions called on their own.
NoDatasource ==
    /\ features = <<>>
    /\ aggregation = "None"
    /\ roleMap = <<>>
    /\ updated = FALSE
    /\ choroplethData = <<>>
    /\ colorLimits = <<>>
    /\ sizeLimits = <<>>
    /\ held = <<>>
    /\ limIn = <<>>
    /\ limOut = <<>>
    /\ bounds = Null
    /\ sourceBounds = Null
    /\ insts = <<>>
    /\ calls = <<>>
    /\ allNull = TRUE
    /\ now = 0
    /\ autozoomSetting = FALSE
    /\ event = NoEvent

----------------------------------------------------------------------------
\* Two update() calls in a row, auto-zoom off, a consumer holding what the
\* first one published

FreshRows == [loc : Locations, v : {Null, Num(0), Num(Unit)}]
FreshFeatures == UNION {[1..n -> FreshRows] : n \in 0..MaxFreshRows}
FreshRoleMaps ==
    {<<LocationColumn, ValueColumn(TRUE, "color")>>,
     <<LocationColumn, ValueColumn(TRUE, "size")>>}

InitFresh ==
    /\ NoDatasource
    /\ fnArgs = <<>>
    /\ fnResult = <<>>
    /\ visual = NewMapboxMap
    /\ legend = NewLegendControl

\* update() has run at most once: the consumer holds nothing, or what the
\* constructor left.
AtMostOneUpdate ==
    IF held = <<>> THEN TRUE
    ELSE held.was.colorLimits = <<>> /\ held.was.sizeLimits = <<>>

UpdateFresh ==
    /\ AtMostOneUpdate
    /\ \E f \in FreshFeatures, columns \in FreshRoleMaps :
          UpdateCall(f, columns, "Sum", FALSE, Null)

SpecFresh == InitFresh /\ [][UpdateFresh]_vars

----------------------------------------------------------------------------
\* getClassCount on every bounded array

CountInputs == UNION {[1..n -> {0, 1}] : n \in 0..MaxCount}

InitClassCount ==
    /\ NoDatasource
    /\ fnArgs \in {[values |-> v] : v \in CountInputs}
    /\ fnResult = <<>>
    /\ visual = NewMapboxMap
    /\ legend = NewLegendControl

CallGetClassCount ==
    /\ fnResult = <<>>
    /\ fnResult' = <<getClassCount(fnArgs.values)>>
    /\ UNCHANGED <<fnArgs, dataVars, limVars, bboxVars, visVars, legVars>>

SpecClassCount == InitClassCount /\ [][CallGetClassCount]_vars

----------------------------------------------------------------------------
\* getBreaks on every bounded array of numbers

BreakNumbers == {k * BreakUnit : k \in {-1, 0, 1, 2}}
BreakArrays == UNION {[1..n -> BreakNumbers] : n \in 1..MaxBreakVals}
BreakInputs ==
    {[values |-> v, method |-> m, classCount |-> c] :
        v \in BreakArrays, m \in ClassificationMethod, c \in 1..MaxClasses}

InitBreaks ==
    /\ NoDatasource
    /\ fnArgs \in {a \in BreakInputs : a.method = "NaturalBreaks" => a.classCount = 1}
    /\ fnResult = <<>>
    /\ visual = NewMapboxMap
    /\ legend = NewLegendControl

CallGetBreaks ==
    /\ fnResult = <<>>
    /\ fnResult' = <<getBreaks(fnArgs.values, fnArgs.method, fnArgs.classCount)>>
    /\ UNCHANGED <<fnArgs, dataVars, limVars, bboxVars, visVars, legVars>>

SpecBreaks == InitBreaks /\ [][CallGetBreaks]_vars

----------------------------------------------------------------------------
\* generateColorStops on every bounded Limits and settings

LayerKinds == {"choropleth", "circle", "cluster"}

\* The values lists: distinct numbers in any order.
RECURSIVE DistinctArraysOfLen(_, _)
DistinctArraysOfLen(numbers, n) ==
    IF n = 0 THEN {<<>>}
    ELSE UNION {{Append(a, x) : x \in numbers \ {a[i] : i \in DOMAIN a}} :
                   a \in DistinctArraysOfLen(numbers, n - 1)}

DistinctArrays(numbers, maxLen) ==
    UNION {DistinctArraysOfLen(numbers, n) : n \in 0..maxLen}

\* The numbers 0 .. n-1 in ascending or descending order, rotated by r.
Rotated(n, r, descending) ==
    [i \in 1..n |-> LET k == (i - 1 + r) % n
                    IN (IF descending THEN n - 1 - k ELSE k) * BreakUnit]
LongArrays ==
    {Rotated(n, r, d) : n \in 1..MaxStopVals, r \in 0..(MaxStopVals - 1), d \in BOOLEAN}
DivNumbers == {k * BreakUnit : k \in {-1, 0, 1, 2}}
Clamps == {Null, Num(0), Num(BreakUnit)}

StopSettings(kind, diverging, minValue, midValue, maxValue) ==
    [kind |-> kind, diverging |-> diverging,
     minValue |-> minValue, midValue |-> midValue, maxValue |-> maxValue,
     minColor |-> "minColor", midColor |-> "midColor", maxColor |-> "maxColor"]

\* Long values lists on a scale that is not diverging, and short ones in
\* every order with every combination of the settings.
StopInputs ==
    {[settings |-> StopSettings(kind, FALSE, Null, Null, Null), isGradient |-> TRUE,
      values |-> v] : kind \in LayerKinds, v \in LongArrays}
    \cup
    {[settings |-> StopSettings(kind, diverging, lo, mid, hi), isGradient |-> g,
      values |-> v] :
        kind \in LayerKinds, diverging \in BOOLEAN, lo \in Clamps, mid \in Clamps,
        hi \in Clamps, g \in BOOLEAN, v \in DistinctArrays(DivNumbers, MaxDivVals)}

InitStops ==
    /\ NoDatasource
    /\ fnArgs \in StopInputs
    /\ fnResult = <<>>
    /\ visual = NewMapboxMap
    /\ legend = NewLegendControl

CallGenerateColorStops ==
    /\ fnResult = <<>>
    /\ fnResult' = <<generateColorStops(fnArgs.settings, fnArgs.isGradient,
                                        [values |-> fnArgs.values]),
                     colorLimitsAfter(fnArgs.settings, fnArgs.isGradient,
                                      [values |-> fnArgs.values])>>
    /\ UNCHANGED <<fnArgs, dataVars, limVars, bboxVars, visVars, legVars>>

SpecStops == InitStops /\ [][CallGenerateColorStops]_vars

----------------------------------------------------------------------------
\* applySettings on every bounded set of region records

LocationValues ==
    {[type |-> "string", text |-> "A"], [type |-> "string", text |-> "1"],
     [type |-> "number", text |-> "1"], [type |-> "string", text |-> ""]}
BindRows ==
    [loc : LocationValues, v : {Null, Num(0), Num(BreakUnit)}, s : {Null, Num(BreakUnit)}]
BindData == UNION {[1..n -> BindRows] : n \in 0..MaxBindRows}

\* The color role: not bound, bound to a categorical column, or bound to
\* an aggregated one (a gradient).
BindSettings ==
    {[display |-> d, hasColor |-> c # "none", isGradient |-> c = "gradient",
      hasSize |-> z, height |-> h, colorStops |-> <<>>,
      stops |-> StopSettings("choropleth", FALSE, Null, Null, Null)] :
        d \in BOOLEAN, c \in {"none", "categorical", "gradient"}, z \in BOOLEAN,
        h \in {0, 1}}

\* The values of the color limits the datasource publishes for the rows.
ColorValuesOf(rows) ==
    LET values == getLimits(rows, "v").values
    IN [i \in DOMAIN values |-> values[i][1]]

InitBind ==
    /\ NoDatasource
    /\ fnArgs \in [bind : BindSettings, data : BindData]
    /\ fnResult = <<>>
    /\ visual = NewMapboxMap
    /\ legend = NewLegendControl

CallApplySettings ==
    /\ fnResult = <<>>
    /\ fnResult' = <<applySettings(fnArgs.bind, fnArgs.data,
                                   [values |-> IF fnArgs.bind.hasColor
                                               THEN ColorValuesOf(fnArgs.data)
                                               ELSE <<>>])>>
    /\ UNCHANGED <<fnArgs, dataVars, limVars, bboxVars, visVars, legVars>>

SpecBind == InitBind /\ [][CallApplySettings]_vars

----------------------------------------------------------------------------
\* update() and style.load on every bounded option

\* The options the host calls update() with.
Styles == {"light", "dark"}
ShowSets == {{}, {"choropleth"}, {"choropleth", "cluster"}}
RoleSets ==
    {{}, {"location", "color"}, {"location", "color", "latitude", "longitude"},
     {"location", "color", "latitude", "longitude", "cluster"}}
Orders ==
    {LayerIds, <<"symbol", "circle", "choropleth", "cluster", "heatmap", "raster">>}
VisualSettings ==
    [accessToken : BOOLEAN, tiles : BOOLEAN, shows : ShowSets, style : Styles,
     order : Orders, mapboxControls : BOOLEAN]
\* Settings with a token and a tile set, and settings that lack one.
\* The controls are switched off with one choice of layers and order.
UsableSettings ==
    {s \in VisualSettings :
        /\ s.accessToken /\ s.tiles
        /\ s.mapboxControls \/ (s.shows = {"choropleth"} /\ s.order = LayerIds)}
UnusableSettings ==
    {s \in VisualSettings :
        /\ ~(s.accessToken /\ s.tiles)
        /\ s.style = "light" /\ s.order = LayerIds /\ s.mapboxControls}
AllRoles == {"location", "color", "latitude", "longitude", "cluster"}
VisualOptions ==
    [dataView : {TRUE}, roles : RoleSets, settings : UsableSettings]
        \cup [dataView : {TRUE}, roles : {AllRoles}, settings : UnusableSettings]
        \cup [dataView : {FALSE}, roles : {{}}, settings : UsableSettings]

InitVisual ==
    /\ NoDatasource
    /\ fnArgs = <<>>
    /\ fnResult = <<>>
    /\ visual = NewMapboxMap
    /\ legend = NewLegendControl

VisualUpdate ==
    /\ \E options \in VisualOptions :
        /\ (Passes(visual, options) /\ Delays(visual, options))
              => visual.styleLoad < MaxDelayed
        /\ \E raise \in (IF Passes(visual, options) /\ ~Delays(visual, options)
                         THEN Raises ELSE {"none"}) :
              visual' = update(visual, options, raise)
    /\ UNCHANGED <<dataVars, limVars, bboxVars, fnVars, legVars>>

StyleLoad ==
    /\ visual.map
    /\ visual.styleLoading
    /\ \E raise \in Raises :
        visual' = fireStyleLoad([visual EXCEPT !.styleLoading = FALSE,
                                               !.call = NewCall("style.load")],
                                visual.styleLoad, raise)
    /\ UNCHANGED <<dataVars, limVars, bboxVars, fnVars, legVars>>

SpecVisual == InitVisual /\ [][VisualUpdate \/ StyleLoad]_vars

----------------------------------------------------------------------------
\* The calls into one LegendControl, in any order

\* The keys are the ids of the layers that have a legend.
LegendKeys == {"choropleth", "circle"}

InitLegend ==
    /\ NoDatasource
    /\ fnArgs = <<>>
    /\ fnResult = <<>>
    /\ visual = NewMapboxMap
    /\ legend = NewLegendControl

CallAddLegend ==
    /\ \E key \in LegendKeys, hasData \in BOOLEAN :
        /\ hasData => legend.created < MaxCreated
        /\ legend' = addLegend([legend EXCEPT !.call = NewLegendCall("addLegend")],
                               key, hasData)
    /\ UNCHANGED <<dataVars, limVars, bboxVars, fnVars, visVars>>

CallRemoveLegends ==
    /\ legend' = removeLegends([legend EXCEPT !.call = NewLegendCall("removeLegends")])
    /\ UNCHANGED <<dataVars, limVars, bboxVars, fnVars, visVars>>

\* map.addControl(legend)
CallOnAdd ==
    /\ legend' = onAdd([legend EXCEPT !.call = NewLegendCall("onAdd")])
    /\ UNCHANGED <<dataVars, limVars, bboxVars, fnVars, visVars>>

\* map.removeControl(legend)
CallOnRemove ==
    /\ legend' = onRemove([legend EXCEPT !.call = NewLegendCall("onRemove")])
    /\ UNCHANGED <<dataVars, limVars, bboxVars, fnVars, visVars>>

NextLegend == CallAddLegend \/ CallRemoveLegends \/ CallOnAdd \/ CallOnRemove

SpecLegend == InitLegend /\ [][NextLegend]_vars

----------------------------------------------------------------------------
\* Properties of the polling protocol (specification Spec)

CallsOfStep == {calls[i] : i \in 1..Len(calls)}

\* C1: while every query returns null, a closure in its first round waits
\* at each call made up to 1500 ms after its start; at the first call made
\* later it removes the sourcedata listener, clears the timer, sets
\* this.bounds to the source's bounds, calls updateZoom once with them and
\* registers only the zoomend listener; out of the first round no timer
\* runs.
C1_NullQueriesFallBackAtTimeout ==
    /\ allNull =>
          \A c \in CallsOfStep :
              c.before.in1stRound =>
                  IF c.elapsed > BBOX_TIMEOUT
                  THEN /\ c.result = "fallback"
                       /\ ~c.after.sourcedata
                       /\ ~c.after.boundsPoll
                       /\ c.after.zoomend
                       /\ c.bounds = sourceBounds
                       /\ c.zooms = <<sourceBounds>>
                  ELSE /\ c.result = "wait"
                       /\ c.after = c.before
    /\ \A i \in 1..Len(insts) :
          ~insts[i].in1stRound => ~insts[i].boundsPoll /\ ~insts[i].sourcedata

\* C2: at most one closure of update() has a listener or a timer
\* registered at any time.
C2_OneActiveInstance == Len(insts) <= 1

\* C3: a call of sourceLoaded converges (removes both listeners, clears the
\* timer and calls updateZoom once with the queried box) exactly when the
\* box just queried differs by value from this.bounds before the query,
\* and never with a null box.
C3_ConvergeIffBoxDiffers ==
    \A c \in CallsOfStep :
        /\ (c.result = "converged") <=> (c.got # c.prev)
        /\ c.result = "converged" =>
              /\ c.got # Null
              /\ ~Registered(c.after)
              /\ c.zooms = <<c.got>>

\* C4: out of the first round, with this.bounds at the source's bounds, a
\* zoomend call whose query returns null leaves nothing registered, calls
\* updateZoom no more, and leaves this.bounds at the source's bounds.
C4_FinalKeepsFallbackBounds ==
    \A c \in CallsOfStep :
        (~c.before.in1stRound /\ c.prev = sourceBounds /\ c.got = Null) =>
            /\ ~Registered(c.after)
            /\ c.zooms = <<>>
            /\ c.bounds = sourceBounds

----------------------------------------------------------------------------
\* Properties of the aggregation (specification SpecAgg)

RowsAt(location) == {i \in 1..Len(features) : features[i].loc = location}
DefinedAt(location) == {i \in RowsAt(location) : features[i].v # Null}
NumbersAt(location) == {features[i].v[1] : i \in DefinedAt(location)}

RECURSIVE SumOver(_)
SumOver(S) ==
    IF S = {} THEN 0
    ELSE LET i == CHOOSE j \in S : TRUE IN features[i].v[1] + SumOver(S \ {i})

Least(S) == CHOOSE x \in S : \A y \in S : x <= y
Greatest(S) == CHOOSE x \in S : \A y \in S : x >= y

ColumnNames == {roleMap[c].displayName : c \in 1..Len(roleMap)}
ValueIsAggregated == \E c \in 1..Len(roleMap) : roleMap[c].displayName = "v" /\ roleMap[c].numeric
OneRowPerLocation ==
    \A i, j \in 1..Len(features) : i # j => features[i].loc # features[j].loc

\* C5: after update() there is exactly one record for each distinct
\* location of the rows, and every record has an entry for every column of
\* the role map.
C5_OneRecordPerLocation ==
    updated =>
        /\ {choroplethData[k].loc : k \in 1..Len(choroplethData)}
              = {features[i].loc : i \in 1..Len(features)}
        /\ \A j, k \in 1..Len(choroplethData) :
              j # k => choroplethData[j].loc # choroplethData[k].loc
        /\ \A k \in 1..Len(choroplethData) : DOMAIN choroplethData[k] = ColumnNames

\* Three rows of two locations were aggregated into two records.
C5_Witness ==
    /\ updated
    /\ Len(features) = 3
    /\ Len(choroplethData) = 2
    /\ aggregation = "Minimum"

\* C6: with Average the value of a numeric column for a location is the
\* sum of the location's non-null values divided by their number, and 0
\* when it has none.
C6_AverageOverNonNull ==
    (updated /\ aggregation = "Average" /\ ValueIsAggregated) =>
        \A k \in 1..Len(choroplethData) :
            LET D == DefinedAt(choroplethData[k].loc)
            IN choroplethData[k].v =
                  IF D = {} THEN Num(0) ELSE Num(SumOver(D) \div Cardinality(D))

\* C7: with Minimum (Maximum) the value of a numeric column for a location
\* is the least (greatest) non-null value of the location's rows, and null
\* only when it has none.
C7_MinMaxOfDefined ==
    (updated /\ aggregation \in {"Minimum", "Maximum"} /\ ValueIsAggregated) =>
        \A k \in 1..Len(choroplethData) :
            LET S == NumbersAt(choroplethData[k].loc)
            IN choroplethData[k].v =
                  IF S = {} THEN Null
                  ELSE IF aggregation = "Minimum" THEN Num(Least(S))
                  ELSE Num(Greatest(S))

\* C8 as claimed: with one row per location, Minimum, Maximum and Average
\* give records equal field by field to the rows, null and 0 included.
C8_FixedPoint ==
    (updated /\ OneRowPerLocation /\ aggregation \in {"Minimum", "Maximum", "Average"}) =>
        /\ Len(choroplethData) = Len(features)
        /\ \A k \in 1..Len(features) :
              /\ choroplethData[k].loc = features[k].loc
              /\ choroplethData[k].v = features[k].v

\* C8 as amended: with one row per location, Minimum and Maximum give
\* records equal field by field to the rows, null and 0 included; Average
\* does so for every number, and turns a null of a numeric column into 0.
C8_FixedPointButNullAverage ==
    (updated /\ OneRowPerLocation /\ aggregation \in {"Minimum", "Maximum", "Average"}) =>
        /\ Len(choroplethData) = Len(features)
        /\ \A k \in 1..Len(features) :
              /\ choroplethData[k].loc = features[k].loc
              /\ choroplethData[k].v =
                    IF aggregation = "Average" /\ ValueIsAggregated /\ features[k].v = Null
                    THEN Num(0)
                    ELSE features[k].v

\* Two rows of two locations, one null and one negative, were averaged.
C8_Witness ==
    /\ updated
    /\ OneRowPerLocation
    /\ aggregation = "Average"
    /\ ValueIsAggregated
    /\ Len(features) = 2
    /\ features[1].v = Null
    /\ features[2].v = Num(-Unit)
    /\ choroplethData[1].v = Num(0)
    /\ choroplethData[2].v = Num(-Unit)

----------------------------------------------------------------------------
\* Properties of getLimits (specification SpecLimits)

ObservedNumbers == {limIn[i].v[1] : i \in {j \in 1..Len(limIn) : limIn[j].v # Null}}

\* C9: for records with at least one number, getLimits never returns min
\* equal to max; when a single number was observed the returned min is
\* max - 1.
C9_MinNeverEqualsMax ==
    (limOut # <<>> /\ ObservedNumbers # {}) =>
        /\ limOut[1].min # limOut[1].max
        /\ Cardinality(ObservedNumbers) = 1 =>
              /\ limOut[1].max = Num(Greatest(ObservedNumbers))
              /\ limOut[1].min = Num(Greatest(ObservedNumbers) - Unit)

\* C10: for records with at least two different numbers, getLimits returns
\* the least observed number as min and the greatest as max.
C10_MinMaxObserved ==
    (limOut # <<>> /\ Cardinality(ObservedNumbers) >= 2) =>
        /\ limOut[1].min = Num(Least(ObservedNumbers))
        /\ limOut[1].max = Num(Greatest(ObservedNumbers))

\* The index of the first record of limIn whose value is v.
FirstIndex(v) ==
    CHOOSE i \in 1..Len(limIn) : limIn[i].v = v /\ \A j \in 1..(i - 1) : limIn[j].v # v

\* C11: the values list returned by getLimits holds exactly the non-null
\* values observed in the records, each once, in order of first occurrence.
C11_ValuesDistinctFirstSeen ==
    limOut # <<>> =>
        LET vals == limOut[1].values
        IN /\ {vals[i] : i \in DOMAIN vals} = {Num(n) : n \in ObservedNumbers}
           /\ \A i, j \in DOMAIN vals : i # j => vals[i] # vals[j]
           /\ \A i, j \in DOMAIN vals : i < j => FirstIndex(vals[i]) < FirstIndex(vals[j])

\* Three records 1, 0, 1 gave the values list 1, 0.
C11_Witness ==
    /\ limOut # <<>>
    /\ limIn = <<[v |-> Num(Unit)], [v |-> Num(0)], [v |-> Num(Unit)]>>
    /\ limOut[1].values = <<Num(Unit), Num(0)>>

----------------------------------------------------------------------------
\* Properties of getClassCount (specification SpecClassCount)

\* C12: getClassCount gives -1, 0, 1, 2, 3, 4, 5 for the lengths 0 to 6
\* and 5 for every greater length; it never exceeds 5.
C12_ClassCountTable ==
    fnResult # <<>> =>
        LET n == Len(fnArgs.values)
        IN /\ fnResult[1] = CASE n = 0 -> -1
                               [] n = 1 -> 0
                               [] n = 2 -> 1
                               [] n = 3 -> 2
                               [] n = 4 -> 3
                               [] n = 5 -> 4
                               [] OTHER -> 5
           /\ fnResult[1] <= 5

\* An array of seven values gave 5.
C12_Witness ==
    /\ fnResult = <<5>>
    /\ Len(fnArgs.values) = 7

----------------------------------------------------------------------------
\* Properties of generateColorStops (specification SpecStops)

ElementsOf(array) == {array[i] : i \in DOMAIN array}
IsAscending(array) == \A i, j \in DOMAIN array : i < j => array[i] <= array[j]

\* The stop values of the result, in order.
StopValues == [i \in DOMAIN fnResult[1].stops |-> fnResult[1].stops[i].colorStop]

GradientCall == fnResult # <<>> /\ fnArgs.isGradient
NotDiverging == fnArgs.settings.kind = "cluster" \/ ~fnArgs.settings.diverging
DivergingWithMid == ~NotDiverging /\ fnArgs.settings.midValue # Null

\* C13: in the gradient path a values list of exactly one element gives
\* exactly one stop, at that value, and no error, whatever the diverging
\* settings.
C13_SingleValueSingleStop ==
    (GradientCall /\ Len(fnArgs.values) = 1) =>
        /\ ~fnResult[1].raised
        /\ StopValues = <<fnArgs.values[1]>>

\* C14: with a diverging scale and midValue set, exactly one stop of the
\* result has the value midValue.
C14_MidValueStopOnce ==
    (GradientCall /\ DivergingWithMid) =>
        Cardinality({i \in DOMAIN StopValues : StopValues[i] = fnArgs.settings.midValue[1]}) = 1

\* C15: in the gradient path the stop values are in non-decreasing order.
C15_GradientStopsAscending ==
    GradientCall => IsAscending(StopValues)

\* C16: in the gradient path without a diverging scale, n >= 2 distinct
\* values give min(n, 6) stops, one for each of the min(n, 6) - 1 + 1
\* breakpoints of getBreaks, and never more than 6.
C16_OneStopPerBreakpoint ==
    (GradientCall /\ NotDiverging /\ Len(fnArgs.values) >= 2) =>
        LET n == Len(fnArgs.values)
            count == IF n < 6 THEN n ELSE 6
        IN /\ Len(StopValues) = count
           /\ Len(StopValues) <= 6
           /\ ~fnResult[1].raised
           /\ StopValues = getBreaks(fnArgs.values,
                                     getClassificationMethod(fnArgs.settings.kind),
                                     count - 1).limits

\* Seven values gave six stops, and three values gave three.
C16_Witness ==
    /\ GradientCall
    /\ NotDiverging
    /\ Len(fnArgs.values) = 7
    /\ Len(StopValues) = 6
    /\ fnArgs.settings.kind = "choropleth"
    /\ StopValues[2] > StopValues[1]

----------------------------------------------------------------------------
\* Properties of getBreaks (specification SpecBreaks)

\* C17: for an array of at least two values, every method and every class
\* count of at least 1, getBreaks returns classCount + 1 values in
\* ascending order, the first the least and the last the greatest value.
C17_BreaksSpanTheValues ==
    (fnResult # <<>> /\ Len(fnArgs.values) >= 2) =>
        /\ ~fnResult[1].raised
        /\ Len(fnResult[1].limits) = fnArgs.classCount + 1
        /\ IsAscending(fnResult[1].limits)
        /\ fnResult[1].limits[1] = Least(ElementsOf(fnArgs.values))
        /\ fnResult[1].limits[fnArgs.classCount + 1] = Greatest(ElementsOf(fnArgs.values))

\* C30: generateColorStops leaves the Limits it is given as they were:
\* limits.values has the same elements in the same order after the call.
C30_LimitsNotModified ==
    fnResult # <<>> => fnResult[2].values = fnArgs.values

\* C30 witness: a diverging gradient without midValue and with a clamp
\* set: the clamp is among the stops and not among the values.
C30_Witness ==
    /\ fnResult # <<>>
    /\ fnArgs.isGradient /\ fnArgs.settings.kind # "cluster" /\ fnArgs.settings.diverging
    /\ fnArgs.settings.midValue = Null /\ fnArgs.settings.minValue # Null
    /\ fnArgs.values # <<>>
    /\ \A i \in DOMAIN fnArgs.values : fnArgs.values[i] # fnArgs.settings.minValue[1]
    /\ ~fnResult[1].raised
    /\ fnResult[2].values = fnArgs.values
    /\ Len(fnResult[1].stops) > 0

----------------------------------------------------------------------------
\* Properties of applySettings (specification SpecBind)

\* The rows preprocessData does not skip.
BoundRows ==
    {i \in DOMAIN fnArgs.data : TruthyLocation(fnArgs.data[i].loc) /\ fnArgs.bind.hasColor}

\* The duplicate-key guard of preprocessData fires.
DuplicateKey ==
    \E i, j \in BoundRows : i < j /\ fnArgs.data[i].loc.text = fnArgs.data[j].loc.text

\* C18: when the duplicate-key guard fires, applySettings gives the
\* renderer no per-region property function and sets the fill color and
\* the extrusion color to one flat color.
C18_DuplicateKeyFallsBackToFlat ==
    (fnResult # <<>> /\ fnArgs.bind.display /\ DuplicateKey) =>
        /\ fnResult[1].fillColor = <<FlatColor("rgb(0, 0, 0)")>>
        /\ fnResult[1].extrusionColor = <<FlatColor("rgb(0, 0, 0)")>>

----------------------------------------------------------------------------
\* Properties of the update cycle (specification SpecVisual)

\* C19: an exception raised at a step of an update cycle is caught inside
\* the visual: it does not leave the call, and the 'updated' handler is
\* still called.
C19_ExceptionsCaughtInsideVisual ==
    visual.call.raised => (~visual.call.escaped /\ visual.call.updated >= 1)

\* C20: when validateOptions fails in update(), the error is shown, the
\* map is removed and no datasource update and no applySettings has run;
\* a missing access token and a shown choropleth without its tile settings
\* fail the validation.
C20_ValidationFailureRunsNoCore ==
    /\ (visual.call.entry = "update" /\ visual.call.valid = "failed") =>
        /\ visual.errorDiv.display = "block"
        /\ visual.errorDiv.html # ""
        /\ ~visual.map
        /\ visual.layers = <<>>
        /\ visual.call.cycles = 0
        /\ visual.call.sources = <<>>
        /\ visual.call.applied = <<>>
        /\ visual.call.updated = 0
    /\ (visual.call.entry = "update" /\ visual.call.valid # "none") =>
        /\ ~visual.settings.accessToken => visual.call.valid = "failed"
        /\ ("choropleth" \in visual.settings.shows /\ ~visual.settings.tiles)
              => visual.call.valid = "failed"
        /\ (visual.call.valid = "passed") => visual.errorDiv.html = ""

\* C20 witness: a map had been added, then a choropleth is shown without
\* its color role; the call has failed validation.
C20_Witness ==
    /\ visual.call.entry = "update"
    /\ visual.call.valid = "failed"
    /\ visual.errorDiv.html = "MissingLocationOrColor"
    /\ visual.settings.accessToken

\* The locations of the records preprocessData does not skip, in order.
BoundLocations ==
    LET kept == SelectSeq([i \in DOMAIN fnArgs.data |-> i], LAMBDA i : i \in BoundRows)
    IN [k \in DOMAIN kept |-> fnArgs.data[kept[k]].loc]

\* The keys of the stops of a property function.
StopKeys(stops) == [k \in DOMAIN stops |-> stops[k].location]

\* No key twice in a list of keys, as the renderer compares them.
DistinctKeys(keys) ==
    \A i, j \in DOMAIN keys : i # j => keys[i].text # keys[j].text

\* The join data of a call of applySettings on a displayed layer agrees:
\* filter, color stops and height stops hold the keys `keys`.
JoinDataIs(keys) ==
    /\ fnResult[1].outlineFilter = <<InFilter(keys)>>
    /\ StopKeys(fnResult[1].fillColor[1].stops) = keys
    /\ StopKeys(fnResult[1].extrusionColor[1].stops) = keys
    /\ fnArgs.bind.hasSize => StopKeys(fnResult[1].extrusionHeight[1].stops) = keys

C29_OneLayerCarriesTheData ==
    (fnResult # <<>> /\ fnArgs.bind.display) =>
        LET data == fnResult[1].outlineFilter
        IN /\ data # <<ZeroFilter>>
           /\ IF isExtruding(fnArgs.bind)
              THEN fnResult[1].extrusionFilter = data /\ fnResult[1].fillFilter = <<ZeroFilter>>
              ELSE fnResult[1].fillFilter = data /\ fnResult[1].extrusionFilter = <<ZeroFilter>>

\* C29 witness: a size role with height > 0 and two regions bound: the
\* extrusion layer carries the two keys.
C29_Witness ==
    /\ fnResult # <<>>
    /\ fnArgs.bind.display
    /\ isExtruding(fnArgs.bind)
    /\ fnResult[1].extrusionFilter = <<InFilter(BoundLocations)>>
    /\ Len(BoundLocations) = 2
    /\ fnResult[1].fillFilter = <<ZeroFilter>>

----------------------------------------------------------------------------
\* Properties of consecutive updates (specification SpecFresh)

----------------------------------------------------------------------------
\* More properties of the polling protocol (specification Spec)

\* The calls of fitBounds in the last step: visual.updateZoom(settings)
\* is called with the settings of the update() that made the closure,
\* whose autozoom is true, and zoomToData calls fitBounds when the bounds
\* are not null.
FitBoundsCalls ==
    {<<k, z>> \in (DOMAIN calls) \X (1..2) :
        z \in DOMAIN calls[k].zooms /\ calls[k].zooms[z] # Null}

\* C25: when the last update() was made with auto-zoom off, fitBounds is
\* not called: a closure of an earlier update() does not move the map.
C25_NoZoomWhileAutozoomOff ==
    ~autozoomSetting => FitBoundsCalls = {}

\* The closures that are in their first round after the step, and the
\* calls of the step made by a closure in its first round that stays in it.
InFirstRound == SelectSeq(insts, LAMBDA me : me.in1stRound)
FirstRoundCalls == SelectSeq(calls, LAMBDA c : c.before.in1stRound)
FirstRoundWaits == SelectSeq(FirstRoundCalls, LAMBDA c : c.result = "wait")

\* Every closure that was in its first round when the step began has run
\* its query in the step: those still in the first round are the ones
\* that waited.
EveryFirstRoundQueried == Len(InFirstRound) = Len(FirstRoundWaits)

\* C22 as claimed: a closure in its first round runs its query at every
\* sourcedata event of the choropleth source, at every zoomend event and
\* at every tick of its timer, and at no sourcedata event of another
\* source.
C22_FirstRoundQueriesOnEveryEvent ==
    /\ (event.type = "sourcedata" /\ event.sourceId = ID) => EveryFirstRoundQueried
    /\ event.type = "zoomend" => EveryFirstRoundQueried
    /\ event.type = BBOX_TIMER => Len(FirstRoundCalls) = 1
    /\ (event.type = "sourcedata" /\ event.sourceId # ID) => calls = <<>>

\* C22 as amended: a closure in its first round runs its query at every
\* sourcedata event of the choropleth source and at every tick of its
\* timer; it runs none at a zoomend event, which it does not listen to
\* before its fallback, and none at a sourcedata event of another source.
C22_FirstRoundQueriesOnSourceDataAndTick ==
    /\ (event.type = "sourcedata" /\ event.sourceId = ID) => EveryFirstRoundQueried
    /\ event.type = "zoomend" => FirstRoundCalls = <<>>
    /\ event.type = BBOX_TIMER => Len(FirstRoundCalls) = 1
    /\ (event.type = "sourcedata" /\ event.sourceId # ID) => calls = <<>>

\* C22 witness: the map has fired zoomend while a closure was in its
\* first round, and the closure ran no query.
C22_Witness ==
    /\ event.type = "zoomend"
    /\ InFirstRound # <<>>
    /\ FirstRoundCalls = <<>>

\* The closures in their first round that update() made at time s.
FirstRoundSince(s) == SelectSeq(insts, LAMBDA me : me.in1stRound /\ me.start = s)

\* The times at which a closure can start and still see its timeout
\* before the clock of the model stops.
TimelyStarts == {s \in 0..MaxTime : (MaxTime - s) * TimeStep > BBOX_TIMEOUT}

\* The calls of the step that took a closure out of its first round.
LeavingCalls ==
    SelectSeq(FirstRoundCalls, LAMBDA c : c.result \in {"converged", "fallback"})

\* A closure leaves its first round with its interval cleared, its
\* sourcedata listener removed and visual.updateZoom called.
LeftCleanly ==
    \A k \in DOMAIN LeavingCalls :
        /\ ~LeavingCalls[k].after.boundsPoll
        /\ ~LeavingCalls[k].after.sourcedata
        /\ LeavingCalls[k].zooms # <<>>

\* C23: with auto-zoom on and a first query that returned null, while the
\* timer keeps ticking the closure leaves its first round, by converging
\* or by falling back, and it leaves it with the timer cleared, the
\* sourcedata listener removed and the zoom to the bounds called; it does
\* not poll for ever.
C23_FirstRoundEnds ==
    /\ []LeftCleanly
    /\ \A s \in TimelyStarts : (FirstRoundSince(s) # <<>>) ~> (FirstRoundSince(s) = <<>>)

\* C23 witness: a closure has just left its first round at the timeout,
\* having seen nothing but null.
C23_Witness ==
    \E k \in DOMAIN LeavingCalls :
        /\ LeavingCalls[k].result = "fallback"
        /\ LeavingCalls[k].elapsed > BBOX_TIMEOUT
        /\ ~LeavingCalls[k].after.boundsPoll

----------------------------------------------------------------------------
\* Properties of LegendControl (specification SpecLegend)

LegendChildren == {legend.children[i] : i \in DOMAIN legend.children}
LegendElements == {legend.legends[i].el : i \in DOMAIN legend.legends}

\* C27: whenever the container exists its children are exactly the
\* elements of this.legends, one per key at most, and no call tries to
\* remove an element that is not a child of the container.
C27_ChildrenAreTheLegends ==
    /\ legend.legendContainer =>
          /\ LegendChildren = LegendElements
          /\ Len(legend.children) = Len(legend.legends)
    /\ legend.call.threw = NoThrow

----------------------------------------------------------------------------
\* More properties of the update cycle (specification SpecVisual)

\* No delayedUpdate listener is left to run.
NoDelayedUpdate == visual.styleLoad = 0 /\ ~visual.styleLoading

\* C24: once every delayedUpdate listener has run, the data view that
\* updateLayers last ran with is the one of the last update(), and
\* updateLayers never runs while the style that was set is still loading.
C24_LatestDataViewWins ==
    /\ (NoDelayedUpdate /\ visual.dataView # "none") => visual.dataView = "latest"
    /\ ~visual.call.unloaded

\* C26: after an update() that got past validateOptions, the navigation,
\* draw and auto-zoom controls are on the map exactly when
\* settings.api.mapboxControls is set, and controlsPopulated says whether
\* they are on the map.
C26_ControlsFollowTheSetting ==
    (visual.call.entry = "update" /\ visual.call.valid = "passed") =>
        /\ visual.controls = visual.settings.mapboxControls
        /\ visual.controlsPopulated = visual.controls

====
